---------------------------- MODULE Spec2Model ----------------------------
(***************************************************************************)
(* A model of dialNTLM (ntlm_windows.go): the NTLM-over-CONNECT handshake  *)
(* of proxyplease.  One call of dialNTLM is a sequential process; its      *)
(* position is pc.  The collaborators (the dial function, the SSPI         *)
(* provider, the proxy behind the connection) answer nondeterministically. *)
(* Text (header values, base64) is a sequence of one-character strings;    *)
(* tokens are sequences of bytes (0..255).                                 *)
(***************************************************************************)
EXTENDS Integers, Sequences, FiniteSets, TLC

(***************************************************************************)
(* Bounds of the model.                                                    *)
(***************************************************************************)
\* Longest token (negotiate, authenticate) the provider hands out.
MaxTokenLen == 3

\* The tokens are opaque to dialNTLM.  Two byte patterns are drawn, in every
\* length up to MaxTokenLen, so that each padding case of base64 occurs.
TokenByte(k, i) ==
    IF k = 1 THEN (77 + 178 * (i - 1)) % 256 ELSE (255 + 78 * (i - 1)) % 256

Tokens == {[i \in 1..n |-> TokenByte(k, i)] : n \in 0..MaxTokenLen, k \in 1..2}

\* Most bytes that follow a response on the connection before it is read.
MaxAhead == 2

(***************************************************************************)
(* Errors.  A Go error is nil or carries a text; errors.New("") is not nil.*)
(***************************************************************************)
Nil == [isNil |-> TRUE, text |-> ""]

ErrorsNew(t) == [isNil |-> FALSE, text |-> t]

\* The errors the collaborators may return.
ErrDial == ErrorsNew("dial: connection refused")
ErrAcquire == ErrorsNew("sspi: AcquireCredentialsHandle failed")
ErrContext == ErrorsNew("sspi: InitializeSecurityContext failed")
ErrUpdate == ErrorsNew("sspi: Update failed")
ErrWrite == ErrorsNew("write: broken pipe")
ErrRead == ErrorsNew("read: unexpected EOF")
ErrBodyClose == ErrorsNew("body: unexpected EOF")
ErrCorruptInput == ErrorsNew("illegal base64 data")

(***************************************************************************)
(* Text constants.                                                         *)
(***************************************************************************)
NTLMPrefix == <<"N", "T", "L", "M", " ">>

KeepAlive == <<"K", "e", "e", "p", "-", "A", "l", "i", "v", "e">>

(***************************************************************************)
(* encoding/base64, StdEncoding: the standard alphabet, '=' padding,       *)
(* non-strict decoding (the unused low bits of a final quantum are not     *)
(* checked).  DecodeString also skips CR and LF; a header value parsed by  *)
(* http.ReadResponse holds neither, so the model has no case for them.     *)
(***************************************************************************)
encodeStd ==
    <<"A", "B", "C", "D", "E", "F", "G", "H", "I", "J", "K", "L", "M",
      "N", "O", "P", "Q", "R", "S", "T", "U", "V", "W", "X", "Y", "Z",
      "a", "b", "c", "d", "e", "f", "g", "h", "i", "j", "k", "l", "m",
      "n", "o", "p", "q", "r", "s", "t", "u", "v", "w", "x", "y", "z",
      "0", "1", "2", "3", "4", "5", "6", "7", "8", "9", "+", "/">>

StdPadding == "="

\* The character of a 6-bit value.
EncodeChar(v) == encodeStd[v + 1]

InAlphabet(c) == \E i \in 1..Len(encodeStd) : encodeStd[i] = c

\* The 6-bit value of a character of the alphabet.
DecodeChar(c) == (CHOOSE i \in 1..Len(encodeStd) : encodeStd[i] = c) - 1

RECURSIVE EncodeToString(_)
EncodeToString(src) ==
    IF Len(src) = 0 THEN <<>>
    ELSE IF Len(src) = 1 THEN
        LET val == src[1] * 65536
        IN  <<EncodeChar((val \div 262144) % 64), EncodeChar((val \div 4096) % 64),
              StdPadding, StdPadding>>
    ELSE IF Len(src) = 2 THEN
        LET val == src[1] * 65536 + src[2] * 256
        IN  <<EncodeChar((val \div 262144) % 64), EncodeChar((val \div 4096) % 64),
              EncodeChar((val \div 64) % 64), StdPadding>>
    ELSE
        LET val == src[1] * 65536 + src[2] * 256 + src[3]
        IN  <<EncodeChar((val \div 262144) % 64), EncodeChar((val \div 4096) % 64),
              EncodeChar((val \div 64) % 64), EncodeChar(val % 64)>>
            \o EncodeToString(SubSeq(src, 4, Len(src)))

\* How many of the first (at most four) characters of s are of the alphabet,
\* counted up to the first one that is not.
RECURSIVE QuantumLen(_, _)
QuantumLen(s, j) ==
    IF j = 4 \/ Len(s) = j THEN j
    ELSE IF InAlphabet(s[j + 1]) THEN QuantumLen(s, j + 1)
    ELSE j

\* The bytes of a quantum of dlen characters (dlen in 2..4).
QuantumBytes(s, dlen) ==
    LET v(i) == IF i <= dlen THEN DecodeChar(s[i]) ELSE 0
        val == v(1) * 262144 + v(2) * 4096 + v(3) * 64 + v(4)
        b1 == (val \div 65536) % 256
        b2 == (val \div 256) % 256
        b3 == val % 256
    IN  IF dlen = 4 THEN <<b1, b2, b3>>
        ELSE IF dlen = 3 THEN <<b1, b2>>
        ELSE <<b1>>

\* DecodeString: [err, out], err nil or CorruptInputError.
RECURSIVE DecodeString(_)
DecodeString(s) ==
    LET corrupt == [err |-> ErrCorruptInput, out |-> <<>>]
        j == QuantumLen(s, 0)
    IN  IF Len(s) = 0 THEN [err |-> Nil, out |-> <<>>]
        ELSE IF j = 4 THEN
            LET rest == DecodeString(SubSeq(s, 5, Len(s)))
            IN  IF rest.err.isNil
                THEN [err |-> Nil, out |-> QuantumBytes(s, 4) \o rest.out]
                ELSE corrupt
        \* the input ends inside a quantum: padding is required
        ELSE IF Len(s) = j THEN corrupt
        \* a character that is neither of the alphabet nor padding
        ELSE IF s[j + 1] # StdPadding THEN corrupt
        \* padding where a quantum starts, or after one character
        ELSE IF j < 2 THEN corrupt
        \* "xx=" needs a second '='
        ELSE IF j = 2 /\ (Len(s) < 4 \/ s[4] # StdPadding) THEN corrupt
        \* trailing garbage after the padding
        ELSE IF Len(s) > 4 THEN corrupt
        ELSE [err |-> Nil, out |-> QuantumBytes(s, j)]

(***************************************************************************)
(* net/http.Header: a map from a canonical header name to its values.  A   *)
(* map is a function whose DOMAIN is the set of names it holds.            *)
(***************************************************************************)
EmptyHeader == [k \in {} |-> <<>>]

\* Header.Set: the name now has exactly this one value.
HeaderSet(hdr, key, value) ==
    [k \in (DOMAIN hdr) \cup {key} |-> IF k = key THEN <<value>> ELSE hdr[k]]

(***************************************************************************)
(* net/http.StatusText: the reason phrase of a status code, "" if unknown. *)
(***************************************************************************)
StatusText(code) ==
    CASE code = 200 -> "OK"
      [] code = 403 -> "Forbidden"
      [] code = 407 -> "Proxy Authentication Required"
      [] code = 502 -> "Bad Gateway"
      [] OTHER -> ""


StatusOK == 200

StatusProxyAuthRequired == 407

(***************************************************************************)
(* The state.  The variables from pc to brAhead belong to the call that is *)
(* running; p, addr and the heap are what every call of the scenario is    *)
(* given.                                                                  *)
(***************************************************************************)
VARIABLES
    scenario,      \* which inputs are drawn: "handshake", "stream", "concurrent"
    self,          \* the call that is running: 1 or 2
    other,         \* the call that is not running: its locals and its logs
    pc,            \* the position of the call in dialNTLM
    p,             \* the Proxy argument: Domain, Username, Password, Headers
    addr,          \* the addr argument
    heap,          \* the header maps, by reference
    conn, err,     \* the locals conn and err
    cred, secctx,  \* the SSPI handles held (NoHandle before acquisition)
    negotiate, challenge, authenticate,   \* the three tokens
    h,             \* the reference h (connect.Header is the same reference)
    connect,       \* the request: Method, Host, Header (a reference)
    resp,          \* the response read last
    defers,        \* the deferred calls, the one to run first at the head
    ret,           \* the returned (conn, err)
    exit,          \* "none", "return" or "panic"
    dialCalls,     \* what each call of baseDial returned
    sspiCalls,     \* the calls made to the SSPI provider, in order
    connLog,       \* the writes and reads on the connection, in order
    brAhead        \* per bufio.Reader made: the bytes it read from the
                   \* connection beyond the response parsed from it

(***************************************************************************)
(* The inputs of a call and the answers of the collaborators.              *)
(***************************************************************************)
\* Values of p.Domain, p.Username and p.Password.
CredentialFields == {"", "x"}

\* p.Headers: nil, or a reference to a header map of the heap.
NilRef == "nil"

ConfiguredRef == "p.Headers"

\* A clone is a new map: each call has its own.
CloneOf(id) == IF id = 2 THEN "h2" ELSE "h"

CloneRef == CloneOf(self)

BasicAuth == <<"B", "a", "s", "i", "c", " ", "e", "D", "p", "5">>

\* The header maps a caller may configure.
ConfiguredHeaders ==
    { EmptyHeader,
      [k \in {"Proxy-Authorization", "Proxy-Connection", "X-Custom"} |->
          IF k = "Proxy-Authorization" THEN <<BasicAuth>>
          ELSE IF k = "Proxy-Connection" THEN <<<<"c", "l", "o", "s", "e">>>>
          ELSE <<<<"a">>, <<"b">>>>] }

TargetAddrs == {"example.com:443"}

NilConn == "nil"

\* Each call is given a dial function that returns its own connection.
ConnOf(id) == IF id = 2 THEN "conn2" ELSE "conn1"

DialedConn == ConnOf(self)

\* What baseDial may return: a connection, an error, or both.
DialOutcomes ==
    { [conn |-> DialedConn, err |-> Nil],
      [conn |-> NilConn, err |-> ErrDial],
      [conn |-> DialedConn, err |-> ErrDial] }

NoHandle == "nil"

\* The provider hands out a new handle on every acquisition and creation.
CredOf(id) == IF id = 2 THEN "cred2" ELSE "cred1"

CtxOf(id) == IF id = 2 THEN "ctx2" ELSE "ctx1"

CredHandle == CredOf(self)

CtxHandle == CtxOf(self)

\* Values of a Proxy-Authenticate header the proxy may send.
ChallengeValues ==
    { NTLMPrefix \o <<"T", "Q", "=", "=">>,
      NTLMPrefix \o <<"/", "w", "=", "=">>,
      NTLMPrefix \o <<"T", "R", "=", "=">>,
      NTLMPrefix \o <<"T", "U", "3", "/">>,
      NTLMPrefix \o <<"T">>,
      NTLMPrefix \o <<"T", "Q", "=">>,
      NTLMPrefix,
      <<"N", "T", "L", "M">>,
      <<>>,
      <<"N", "T", "L", "M", "T", "Q", "=", "=">>,
      <<"n", "t", "l", "m", " ", "T", "Q", "=", "=">>,
      <<"B", "a", "s", "i", "c", " ", "T", "Q", "=", "=">> }

\* The Proxy-Authenticate values of one response: none, one, or two.
ChallengeHeaderLists ==
    {<<>>} \cup {<<v>> : v \in ChallengeValues}
    \cup { <<NTLMPrefix \o <<"T", "Q", "=", "=">>, NTLMPrefix \o <<"T", "Q", "=", "=">>>>,
           <<<<"B", "a", "s", "i", "c", " ", "T", "Q", "=", "=">>,
             NTLMPrefix \o <<"T", "Q", "=", "=">>>> }

\* Status codes the proxy may answer with (299 has no reason phrase).
Statuses == {200, 299, 403, 407}

\* The responses http.ReadResponse may parse.  A parsed header holds a name
\* only with at least one value.
Responses ==
    { [StatusCode |-> sc,
       Header |-> IF vs = <<>> THEN EmptyHeader
                  ELSE [k \in {"Proxy-Authenticate"} |-> vs]] :
      sc \in Statuses, vs \in ChallengeHeaderLists }

\* The second response's headers are never consulted: fewer of them are drawn.
AuthResponses ==
    { r \in Responses :
         \/ r.Header = EmptyHeader
         \/ /\ r.StatusCode = StatusProxyAuthRequired
            /\ r.Header["Proxy-Authenticate"] = <<NTLMPrefix \o <<"T", "Q", "=", "=">>>> }

NoResponse == [StatusCode |-> 0, Header |-> EmptyHeader]

NoRequest == [Method |-> "", Host |-> "", Header |-> EmptyHeader]

NoRet == [conn |-> NilConn, err |-> Nil]

\* What the collaborators answer with in the scenario.  Outside "handshake"
\* a call is handed one token of its own, and the proxy answers 200 or 407
\* to the first request and 200 or 403 to the second.
EnvTokens ==
    IF scenario = "handshake" THEN Tokens ELSE {<<TokenByte(self, 1)>>}

EnvResponses ==
    IF scenario = "handshake" THEN Responses
    ELSE {r \in AuthResponses : r.StatusCode \in {StatusOK, StatusProxyAuthRequired}}

EnvAuthResponses ==
    IF scenario = "handshake" THEN AuthResponses
    ELSE {r \in AuthResponses : r.Header = EmptyHeader /\ r.StatusCode \in {StatusOK, 403}}

\* The bytes a bufio.Reader may take from the connection behind a response:
\* none unless the proxy sent some before the read.
EnvAhead == IF scenario = "stream" THEN 0..MaxAhead ELSE {0}

vars ==
    <<scenario, self, other, pc, p, addr, heap, conn, err, cred, secctx, negotiate,
      challenge, authenticate, h, connect, resp, defers, ret, exit, dialCalls,
      sspiCalls, connLog, brAhead>>

sched == <<scenario, self, other>>

locals == <<cred, secctx, negotiate, challenge, authenticate, h, connect, resp>>

params == <<p, addr>>

\* The locals and the logs of a call that has not started.
NotStarted(id) ==
    [self |-> id, pc |-> "dial", conn |-> NilConn, err |-> Nil, cred |-> NoHandle,
     secctx |-> NoHandle, negotiate |-> <<>>, challenge |-> <<>>,
     authenticate |-> <<>>, h |-> NilRef,
     connect |-> [Method |-> "", Host |-> "", Header |-> NilRef],
     resp |-> NoResponse, defers |-> <<>>, ret |-> NoRet, exit |-> "none",
     dialCalls |-> <<>>, sspiCalls |-> <<>>, connLog |-> <<>>, brAhead |-> <<>>]

\* The locals and the logs of the call that is running.
Running ==
    [self |-> self, pc |-> pc, conn |-> conn, err |-> err, cred |-> cred,
     secctx |-> secctx, negotiate |-> negotiate, challenge |-> challenge,
     authenticate |-> authenticate, h |-> h, connect |-> connect, resp |-> resp,
     defers |-> defers, ret |-> ret, exit |-> exit, dialCalls |-> dialCalls,
     sspiCalls |-> sspiCalls, connLog |-> connLog, brAhead |-> brAhead]

\* Call 1 is about to run; call 2, if the scenario has one, has not started.
InitCall ==
    /\ self = 1
    /\ other = NotStarted(2)
    /\ pc = "dial"
    /\ conn = NilConn
    /\ err = Nil
    /\ cred = NoHandle
    /\ secctx = NoHandle
    /\ negotiate = <<>>
    /\ challenge = <<>>
    /\ authenticate = <<>>
    /\ h = NilRef
    /\ connect = [Method |-> "", Host |-> "", Header |-> NilRef]
    /\ resp = NoResponse
    /\ defers = <<>>
    /\ ret = NoRet
    /\ exit = "none"
    /\ dialCalls = <<>>
    /\ sspiCalls = <<>>
    /\ connLog = <<>>
    /\ brAhead = <<>>

\* One call; every configuration; a proxy that sends nothing but its answers.
Init ==
    /\ scenario = "handshake"
    /\ \E d \in CredentialFields, u \in CredentialFields, w \in CredentialFields,
          r \in {NilRef, ConfiguredRef} :
          p = [Domain |-> d, Username |-> u, Password |-> w, Headers |-> r]
    /\ addr \in TargetAddrs
    /\ \/ /\ p.Headers = NilRef
          /\ heap = [r \in {} |-> EmptyHeader]
       \/ /\ p.Headers = ConfiguredRef
          /\ \E m \in ConfiguredHeaders : heap = [r \in {ConfiguredRef} |-> m]
    /\ InitCall

\* A configuration with headers, its three credential fields all empty or
\* all set.
InitFew ==
    /\ \E d \in CredentialFields :
          p = [Domain |-> d, Username |-> d, Password |-> d, Headers |-> ConfiguredRef]
    /\ addr \in TargetAddrs
    /\ \E m \in ConfiguredHeaders : heap = [r \in {ConfiguredRef} |-> m]
    /\ InitCall

\* One call; bytes may follow a response on the connection.
InitStream == scenario = "stream" /\ InitFew

\* Two calls of dialNTLM with the same Proxy.
InitConcurrent == scenario = "concurrent" /\ InitFew

(***************************************************************************)
(* Helpers of the steps.                                                   *)
(***************************************************************************)
\* The number of calls the call has made to its collaborators so far.
Clock == Len(dialCalls) + Len(sspiCalls) + Len(connLog)

\* A record of a call to the SSPI provider; at is its place among all the
\* calls to collaborators.
SspiCall(op, handle, in, ok, token) ==
    [op |-> op, handle |-> handle, args |-> in, ok |-> ok, token |-> token,
     at |-> Clock + 1]

\* A record of a write or a read on a connection.
ConnOp(op, c, request, response, ok) ==
    [op |-> op, conn |-> c, req |-> request, resp |-> response, ok |-> ok,
     at |-> Clock + 1]

\* The request as WriteProxy sees it: the header map behind the reference.
Snapshot(request, hp) ==
    [Method |-> request.Method, Host |-> request.Host, Header |-> hp[request.Header]]

\* The error of baseDial is not looked at.
DialFailed_Never(e) == FALSE

\* if err != nil after baseDial
DialFailed(e) == ~e.isNil

\* || in place of &&: one non-empty field is enough.
UseSuppliedCredentials_AnyField(proxy) ==
    proxy.Domain # "" \/ proxy.Username # "" \/ proxy.Password # ""

\* p.Domain != "" && p.Username != "" && p.Password != ""
UseSuppliedCredentials(proxy) ==
    proxy.Domain # "" /\ proxy.Username # "" /\ proxy.Password # ""

\* The defer statement left out: nothing is pushed.
DeferRelease_Forgotten(stack, handle) == stack

\* The deferred calls run in the order of their defer statements.
DeferRelease_FirstInFirstOut(stack, handle) == stack \o <<handle>>

\* defer x.Release(): the deferred calls run last in, first out.
DeferRelease(stack, handle) == <<handle>> \o stack

\* return nil, err on the failure paths.
ReturnValues_NilOnError(c, e) == [conn |-> IF e.isNil THEN c ELSE NilConn, err |-> e]

\* The values of a return statement.
ReturnValues(c, e) == [conn |-> c, err |-> e]

\* fmt.Sprintf("NTLM %s", base64.StdEncoding.EncodeToString(token))
NTLMAuthorization(token) == NTLMPrefix \o EncodeToString(token)

\* Header.Add: the value is appended to those the name already has.
HeaderAdd(hdr, key, value) ==
    [k \in (DOMAIN hdr) \cup {key} |->
        IF k # key THEN hdr[k]
        ELSE IF key \in DOMAIN hdr THEN Append(hdr[key], value)
        ELSE <<value>>]

\* h.Add in place of h.Set for Proxy-Authorization.
NegotiateHeader_Add(configured, token) ==
    HeaderSet(HeaderAdd(configured, "Proxy-Authorization", NTLMAuthorization(token)),
              "Proxy-Connection", KeepAlive)

\* The first h.Set left out: the first request carries no token of this call.
NegotiateHeader_NoToken(configured, token) ==
    HeaderSet(configured, "Proxy-Connection", KeepAlive)

\* A new header map in place of the clone: the configured headers are left out.
NegotiateHeader_Fresh(configured, token) ==
    HeaderSet(HeaderSet(EmptyHeader, "Proxy-Authorization", NTLMAuthorization(token)),
              "Proxy-Connection", KeepAlive)

\* h := p.Headers.Clone(), then h.Set("Proxy-Authorization", ...) and
\* h.Set("Proxy-Connection", "Keep-Alive"): the header map of the first request.
NegotiateHeader(configured, token) ==
    HeaderSet(HeaderSet(configured, "Proxy-Authorization", NTLMAuthorization(token)),
              "Proxy-Connection", KeepAlive)

\* The Set before the second write left out: the request is resent as it was.
AuthenticateHeader_Unset(hdr, token) == hdr

\* connect.Header.Set("Proxy-Authorization", ...) before the second write.
AuthenticateHeader(hdr, token) ==
    HeaderSet(hdr, "Proxy-Authorization", NTLMAuthorization(token))

\* strings.HasPrefix
HasPrefix(str, prefix) ==
    Len(str) >= Len(prefix) /\ SubSeq(str, 1, Len(prefix)) = prefix

\* The error of WriteProxy is not looked at.
WriteFailed_Ignored(e) == FALSE

\* if err := connect.WriteProxy(conn); err != nil
WriteFailed(e) == ~e.isNil

\* The error of the first resp.Body.Close() is dropped, as that of the second is.
CloseFailed_Ignored(e) == FALSE

\* if err := resp.Body.Close(); err != nil
CloseFailed(e) == ~e.isNil

\* The status check left out.
CheckFirstStatus_Skipped(response) == Nil

\* The status check of the first response.
CheckFirstStatus(response) ==
    IF response.StatusCode # StatusProxyAuthRequired
    THEN ErrorsNew("Unexpected HTTP status code")
    ELSE Nil

\* The count of values is not checked: the first of several is taken.
CheckChallengeHeaders_FirstOfMany(response) ==
    IF "Proxy-Authenticate" \notin DOMAIN response.Header
    THEN ErrorsNew("did not receive a challenge from the server")
    ELSE LET challengeHeaders == response.Header["Proxy-Authenticate"]
         IN  IF Len(challengeHeaders[1]) < 6
                \/ ~HasPrefix(challengeHeaders[1], NTLMPrefix)
             THEN ErrorsNew("received malformed challenge from the server")
             ELSE Nil

\* The checks of the Proxy-Authenticate header of the first response.
CheckChallengeHeaders(response) ==
    IF "Proxy-Authenticate" \notin DOMAIN response.Header
    THEN ErrorsNew("did not receive a challenge from the server")
    ELSE LET challengeHeaders == response.Header["Proxy-Authenticate"]
         IN  IF Len(challengeHeaders) # 1
             THEN ErrorsNew("received malformed challenge from the server")
             ELSE IF Len(challengeHeaders[1]) < 6
                     \/ ~HasPrefix(challengeHeaders[1], NTLMPrefix)
             THEN ErrorsNew("received malformed challenge from the server")
             ELSE Nil

\* challengeHeaders[0][5:]
ChallengePayload(value) == SubSeq(value, 6, Len(value))

\* Every status other than 200 reported with the text of the first leg.
FinalError_FixedText(response) ==
    IF response.StatusCode = StatusOK
    THEN Nil
    ELSE ErrorsNew("Unexpected HTTP status code")

\* The result of the call once the second response is read.
FinalError(response) ==
    IF response.StatusCode = StatusOK
    THEN Nil
    ELSE ErrorsNew(StatusText(response.StatusCode))

\* The failed step is tried again in place of the return.
Return_Retry(c, e) ==
    /\ pc' = pc
    /\ UNCHANGED <<ret, exit>>

\* A return statement: the values are set, then the deferred calls run.
Return(c, e) ==
    /\ ret' = ReturnValues(c, e)
    /\ exit' = "return"
    /\ pc' = "unwinding"

(***************************************************************************)
(* The steps of dialNTLM.                                                  *)
(***************************************************************************)
\* conn, err := baseDial()
Dial ==
    /\ pc = "dial"
    /\ \E r \in DialOutcomes :
          /\ dialCalls' = Append(dialCalls, r)
          /\ conn' = r.conn
          /\ err' = r.err
          /\ IF DialFailed(r.err)
             THEN Return(r.conn, r.err)
             ELSE pc' = "acquire" /\ UNCHANGED <<ret, exit>>
    /\ UNCHANGED <<sched, brAhead>>
    /\ UNCHANGED <<params, heap, locals, defers, sspiCalls, connLog>>

\* ntlm.AcquireUserCredentials or ntlm.AcquireCurrentUserCredentials
AcquireCredentials ==
    /\ pc = "acquire"
    /\ \E ok \in BOOLEAN :
          LET supplied == UseSuppliedCredentials(p)
              handle == IF ok THEN CredHandle ELSE NoHandle
              call ==
                  IF supplied
                  THEN SspiCall("AcquireUserCredentials", handle,
                                <<p.Domain, p.Username, p.Password>>, ok, <<>>)
                  ELSE SspiCall("AcquireCurrentUserCredentials", handle, <<>>, ok, <<>>)
          IN  /\ sspiCalls' = Append(sspiCalls, call)
              /\ cred' = handle
              /\ IF ok
                 THEN /\ err' = Nil
                      /\ defers' = DeferRelease(defers, handle)
                      /\ pc' = "newctx"
                      /\ UNCHANGED <<ret, exit>>
                 ELSE /\ err' = ErrAcquire
                      /\ Return(conn, ErrAcquire)
                      /\ UNCHANGED defers
    /\ UNCHANGED <<sched, brAhead>>
    /\ UNCHANGED <<params, dialCalls, heap, conn, secctx, negotiate, challenge, authenticate,
                   h, connect, resp, connLog>>

\* secctx, negotiate, err := ntlm.NewClientContext(cred)
NewClientContext ==
    /\ pc = "newctx"
    /\ \/ \E token \in EnvTokens :
             /\ sspiCalls' = Append(sspiCalls,
                    SspiCall("NewClientContext", CtxHandle, <<cred>>, TRUE, token))
             /\ secctx' = CtxHandle
             /\ negotiate' = token
             /\ err' = Nil
             /\ defers' = DeferRelease(defers, CtxHandle)
             /\ pc' = "build"
             /\ UNCHANGED <<ret, exit>>
       \/ /\ sspiCalls' = Append(sspiCalls,
                 SspiCall("NewClientContext", NoHandle, <<cred>>, FALSE, <<>>))
          /\ err' = ErrContext
          /\ Return(conn, ErrContext)
          /\ UNCHANGED <<secctx, negotiate, defers>>
    /\ UNCHANGED <<sched, brAhead>>
    /\ UNCHANGED <<params, dialCalls, heap, conn, cred, challenge, authenticate, h, connect,
                   resp, connLog>>

\* h := p.Headers: the map of the caller is used, not a copy of it.
HeadersClone_Alias(ref) == ref

\* p.Headers.Clone(): the reference of a new map; Header.Clone of nil is nil.
HeadersClone(ref) == IF ref = NilRef THEN NilRef ELSE CloneRef

\* Header: p.Headers in the request: the map of the caller goes out and is
\* the one the later Set writes to.
ConnectHeader_Configured(clone, configured) == configured

\* connect := &http.Request{..., Header: h}
ConnectHeader(clone, configured) == clone

\* h := p.Headers.Clone(); the two h.Set; connect := &http.Request{...}
\* Set on a nil map panics.
BuildRequest ==
    /\ pc = "build"
    /\ LET clone == HeadersClone(p.Headers)
       IN  IF clone = NilRef
           THEN /\ exit' = "panic"
                /\ pc' = "unwinding"
                /\ UNCHANGED <<heap, h, connect>>
           ELSE /\ h' = clone
                /\ heap' =
                      [r \in (DOMAIN heap) \cup {clone} |->
                          IF r = clone
                          THEN NegotiateHeader(heap[p.Headers], negotiate)
                          ELSE heap[r]]
                /\ connect' = [Method |-> "CONNECT", Host |-> addr,
                               Header |-> ConnectHeader(clone, p.Headers)]
                /\ pc' = "write1"
                /\ UNCHANGED exit
    /\ UNCHANGED <<sched, brAhead>>
    /\ UNCHANGED <<params, dialCalls, conn, err, cred, secctx, negotiate, challenge,
                   authenticate, resp, defers, ret, sspiCalls, connLog>>

\* connect.WriteProxy(conn), the negotiate message
WriteNegotiate ==
    /\ pc = "write1"
    /\ \E e \in {Nil, ErrWrite} :
          /\ connLog' = Append(connLog,
                 ConnOp("write", conn, Snapshot(connect, heap), NoResponse, e.isNil))
          /\ IF WriteFailed(e)
             THEN Return(conn, e)
             ELSE pc' = "read1" /\ UNCHANGED <<ret, exit>>
    /\ UNCHANGED <<sched, brAhead>>
    /\ UNCHANGED <<params, dialCalls, heap, conn, err, locals, defers, sspiCalls>>

\* br := bufio.NewReader(conn); resp, err := http.ReadResponse(br, connect)
ReadNegotiateResponse ==
    /\ pc = "read1"
    /\ \/ \E r \in EnvResponses, ahead \in EnvAhead :
             /\ connLog' = Append(connLog, ConnOp("read", conn, NoRequest, r, TRUE))
             /\ brAhead' = Append(brAhead, ahead)
             /\ resp' = r
             /\ err' = Nil
             /\ pc' = "check1"
             /\ UNCHANGED <<ret, exit>>
       \/ /\ connLog' = Append(connLog, ConnOp("read", conn, NoRequest, NoResponse, FALSE))
          /\ brAhead' = Append(brAhead, 0)
          /\ err' = ErrRead
          /\ Return(conn, ErrRead)
          /\ UNCHANGED resp
    /\ UNCHANGED sched
    /\ UNCHANGED <<params, dialCalls, heap, conn, cred, secctx, negotiate, challenge,
                   authenticate, h, connect, defers, sspiCalls>>


\* resp.Body.Close(), the status check, the challenge header checks and
\* base64.StdEncoding.DecodeString(challengeHeaders[0][5:])
CheckNegotiateResponse ==
    /\ pc = "check1"
    /\ \E closeErr \in {Nil, ErrBodyClose} :
          LET statusErr == CheckFirstStatus(resp)
              headerErr == CheckChallengeHeaders(resp)
              decoded == DecodeString(ChallengePayload(resp.Header["Proxy-Authenticate"][1]))
          IN  /\ connLog' = Append(connLog,
                     ConnOp("closeBody", conn, NoRequest, resp, closeErr.isNil))
              /\ IF CloseFailed(closeErr)
                 THEN Return(conn, closeErr) /\ UNCHANGED <<err, challenge>>
                 ELSE IF ~statusErr.isNil
                 THEN Return(conn, statusErr) /\ UNCHANGED <<err, challenge>>
                 ELSE IF ~headerErr.isNil
                 THEN Return(conn, headerErr) /\ UNCHANGED <<err, challenge>>
                 ELSE IF ~decoded.err.isNil
                 THEN Return(conn, decoded.err) /\ err' = decoded.err /\ UNCHANGED challenge
                 ELSE /\ challenge' = decoded.out
                      /\ err' = Nil
                      /\ pc' = "update"
                      /\ UNCHANGED <<ret, exit>>
    /\ UNCHANGED <<sched, brAhead>>
    /\ UNCHANGED <<params, dialCalls, heap, conn, cred, secctx, negotiate, authenticate, h,
                   connect, resp, defers, sspiCalls>>

\* authenticate, err := secctx.Update(challenge)
Update ==
    /\ pc = "update"
    /\ \/ \E token \in EnvTokens :
             /\ sspiCalls' = Append(sspiCalls,
                    SspiCall("Update", secctx, challenge, TRUE, token))
             /\ authenticate' = token
             /\ err' = Nil
             /\ pc' = "write2"
             /\ UNCHANGED <<ret, exit>>
       \/ /\ sspiCalls' = Append(sspiCalls,
                 SspiCall("Update", secctx, challenge, FALSE, <<>>))
          /\ err' = ErrUpdate
          /\ Return(conn, ErrUpdate)
          /\ UNCHANGED authenticate
    /\ UNCHANGED <<sched, brAhead>>
    /\ UNCHANGED <<params, dialCalls, heap, conn, cred, secctx, negotiate, challenge, h,
                   connect, resp, defers, connLog>>

\* connect.GetBody is nil (the request is built without one), so no body is
\* rewound; connect.Header.Set("Proxy-Authorization", ...); connect.WriteProxy(conn)
WriteAuthenticate ==
    /\ pc = "write2"
    /\ heap' = [heap EXCEPT ![connect.Header] = AuthenticateHeader(@, authenticate)]
    /\ \E e \in {Nil, ErrWrite} :
          /\ connLog' = Append(connLog,
                 ConnOp("write", conn, Snapshot(connect, heap'), NoResponse, e.isNil))
          /\ IF WriteFailed(e)
             THEN Return(conn, e)
             ELSE pc' = "read2" /\ UNCHANGED <<ret, exit>>
    /\ UNCHANGED <<sched, brAhead>>
    /\ UNCHANGED <<params, dialCalls, conn, err, locals, defers, sspiCalls>>

\* br = bufio.NewReader(conn); resp, err = http.ReadResponse(br, connect)
ReadAuthenticateResponse ==
    /\ pc = "read2"
    /\ \/ \E r \in EnvAuthResponses, ahead \in EnvAhead :
             /\ connLog' = Append(connLog, ConnOp("read", conn, NoRequest, r, TRUE))
             /\ brAhead' = Append(brAhead, ahead)
             /\ resp' = r
             /\ err' = Nil
             /\ pc' = "finish"
             /\ UNCHANGED <<ret, exit>>
       \/ /\ connLog' = Append(connLog, ConnOp("read", conn, NoRequest, NoResponse, FALSE))
          /\ brAhead' = Append(brAhead, 0)
          /\ err' = ErrRead
          /\ resp' = NoResponse
          /\ Return(conn, ErrRead)
    /\ UNCHANGED sched
    /\ UNCHANGED <<params, dialCalls, heap, conn, cred, secctx, negotiate, challenge,
                   authenticate, h, connect, defers, sspiCalls>>

\* resp.Body.Close(), its error dropped; return conn, nil on 200, else
\* return conn, errors.New(http.StatusText(resp.StatusCode))
FinishHandshake ==
    /\ pc = "finish"
    /\ \E closeErr \in {Nil, ErrBodyClose} :
          connLog' = Append(connLog,
              ConnOp("closeBody", conn, NoRequest, resp, closeErr.isNil))
    /\ Return(conn, FinalError(resp))
    /\ UNCHANGED <<sched, brAhead>>
    /\ UNCHANGED <<params, dialCalls, heap, conn, err, locals, defers, sspiCalls>>

\* A deferred Release runs: the handle deferred last goes first.
RunDeferred ==
    /\ pc = "unwinding"
    /\ defers # <<>>
    /\ sspiCalls' = Append(sspiCalls, SspiCall("Release", Head(defers), <<>>, TRUE, <<>>))
    /\ defers' = Tail(defers)
    /\ UNCHANGED <<sched, brAhead>>
    /\ UNCHANGED <<pc, params, dialCalls, heap, conn, err, locals, ret, exit, connLog>>

\* The call is over: it hands ret to the caller, or the panic goes on.
Exit ==
    /\ pc = "unwinding"
    /\ defers = <<>>
    /\ pc' = IF exit = "panic" THEN "panicked" ELSE "returned"
    /\ UNCHANGED <<sched, brAhead>>
    /\ UNCHANGED <<params, dialCalls, heap, conn, err, locals, defers, ret, exit, sspiCalls, connLog>>

Next ==
    \/ Dial
    \/ AcquireCredentials
    \/ NewClientContext
    \/ BuildRequest
    \/ WriteNegotiate
    \/ ReadNegotiateResponse
    \/ CheckNegotiateResponse
    \/ Update
    \/ WriteAuthenticate
    \/ ReadAuthenticateResponse
    \/ FinishHandshake
    \/ RunDeferred
    \/ Exit

Spec == Init /\ [][Next]_vars

\* Every collaborator returns and the call goes on: a step that can be taken
\* is taken.
FairSpec == Init /\ [][Next]_vars /\ WF_vars(Next)

\* One call on a connection where bytes may follow the responses.
SpecStream == InitStream /\ [][Next]_vars

\* The scheduler takes the running call off and puts the other one on: the
\* locals and the logs go with their call, the Proxy and the heap stay.
Switch ==
    /\ scenario = "concurrent"
    /\ other' = Running
    /\ self' = other.self
    /\ pc' = other.pc
    /\ conn' = other.conn
    /\ err' = other.err
    /\ cred' = other.cred
    /\ secctx' = other.secctx
    /\ negotiate' = other.negotiate
    /\ challenge' = other.challenge
    /\ authenticate' = other.authenticate
    /\ h' = other.h
    /\ connect' = other.connect
    /\ resp' = other.resp
    /\ defers' = other.defers
    /\ ret' = other.ret
    /\ exit' = other.exit
    /\ dialCalls' = other.dialCalls
    /\ sspiCalls' = other.sspiCalls
    /\ connLog' = other.connLog
    /\ brAhead' = other.brAhead
    /\ UNCHANGED <<scenario, params, heap>>

NextConcurrent ==
    \/ Next
    \/ Switch

\* Two calls of dialNTLM, their steps interleaved in every way.
SpecConcurrent == InitConcurrent /\ [][NextConcurrent]_vars


(***************************************************************************)
(* Observations the properties are stated with.                            *)
(***************************************************************************)
Returned == pc = "returned"

Ended == pc \in {"returned", "panicked"}

\* The positions of the provider calls of the given operations.
SspiIdx(ops) == {i \in 1..Len(sspiCalls) : sspiCalls[i].op \in ops}

\* The positions of the connection operations of the given kind.
ConnIdx(op) == {i \in 1..Len(connLog) : connLog[i].op = op}

MinOf(S) == CHOOSE x \in S : \A y \in S : x <= y

MaxOf(S) == CHOOSE x \in S : \A y \in S : x >= y

AcquireOps == {"AcquireUserCredentials", "AcquireCurrentUserCredentials"}

\* The handles the provider handed out, and where.
AcquiredAt(hd) ==
    {i \in SspiIdx(AcquireOps \cup {"NewClientContext"}) :
        sspiCalls[i].ok /\ sspiCalls[i].handle = hd}

ReleasedAt(hd) == {i \in SspiIdx({"Release"}) : sspiCalls[i].handle = hd}

DialSucceeded == dialCalls # <<>> /\ dialCalls[1].err.isNil

(***************************************************************************)
(* C1: on every exit path of a call, each Credential and each              *)
(* SecurityContext that was acquired has been released exactly once when   *)
(* the call is over; no handle is ever released twice, and none that was   *)
(* not acquired before is released.                                        *)
(***************************************************************************)
C1_ReleasedExactlyOnce ==
    /\ \A i \in SspiIdx({"Release"}) :
          /\ sspiCalls[i].handle \in {CredHandle, CtxHandle}
          /\ \E a \in AcquiredAt(sspiCalls[i].handle) : a < i
    /\ \A hd \in {CredHandle, CtxHandle} :
          /\ Cardinality(ReleasedAt(hd)) <= 1
          /\ Ended /\ AcquiredAt(hd) # {} => Cardinality(ReleasedAt(hd)) = 1

\* A failed call that held both handles has returned, and both are released.
C1_Witness ==
    /\ Returned
    /\ ~ret.err.isNil
    /\ AcquiredAt(CredHandle) # {}
    /\ AcquiredAt(CtxHandle) # {}
    /\ Cardinality(ReleasedAt(CredHandle)) = 1
    /\ Cardinality(ReleasedAt(CtxHandle)) = 1

(***************************************************************************)
(* C2: once the second response has been read, a status of 200 makes the   *)
(* call return the dialed connection and a nil error; any other status X   *)
(* (407 too) makes it return a non-nil error whose text is the reason      *)
(* phrase of X.                                                            *)
(***************************************************************************)
\* The responses read, in order.
ResponsesRead == {i \in ConnIdx("read") : connLog[i].ok}

SecondResponse == connLog[MaxOf(ResponsesRead)].resp

C2_FinalStatusDecides ==
    Returned /\ Cardinality(ResponsesRead) = 2 =>
        /\ SecondResponse.StatusCode = 200 =>
              ret = [conn |-> dialCalls[1].conn, err |-> Nil]
        /\ SecondResponse.StatusCode # 200 =>
              /\ ~ret.err.isNil
              /\ ret.err.text = StatusText(SecondResponse.StatusCode)

\* The second leg was answered by 407 and the call returned its phrase.
C2_Witness ==
    /\ Returned
    /\ Cardinality(ResponsesRead) = 2
    /\ SecondResponse.StatusCode = 407
    /\ ret.err = ErrorsNew("Proxy Authentication Required")

\* The second leg was answered by 200 and the call returned the connection.
C2_WitnessOK ==
    /\ Returned
    /\ Cardinality(ResponsesRead) = 2
    /\ SecondResponse.StatusCode = 200
    /\ ret = [conn |-> DialedConn, err |-> Nil]


(***************************************************************************)
(* C3 and C4 speak of the first response.                                  *)
(***************************************************************************)
FirstResponse == connLog[MinOf(ResponsesRead)].resp

NumWrites == Cardinality(ConnIdx("write"))

\* Whether resp.Body.Close() of the first response returned nil.
FirstBodyClosed ==
    ConnIdx("closeBody") # {} /\ connLog[MinOf(ConnIdx("closeBody"))].ok

UnexpectedStatus == ErrorsNew("Unexpected HTTP status code")

ChallengeErrors ==
    { ErrorsNew("did not receive a challenge from the server"),
      ErrorsNew("received malformed challenge from the server") }

(***************************************************************************)
(* C3, as stated: if the status of the first response is not 407, the call *)
(* fails with "Unexpected HTTP status code", no second CONNECT request is  *)
(* written and Update is never invoked.                                    *)
(***************************************************************************)
C3_AsStated ==
    ResponsesRead # {} /\ FirstResponse.StatusCode # 407 =>
        /\ NumWrites <= 1
        /\ SspiIdx({"Update"}) = {}
        /\ Returned => ret.err = UnexpectedStatus

(***************************************************************************)
(* C3, amended: if the status of the first response is not 407, no second  *)
(* CONNECT request is written and Update is never invoked, and the call    *)
(* fails: with "Unexpected HTTP status code" when closing the body of the  *)
(* response succeeded, and with the error of that Close when it failed     *)
(* (the body is closed before the status is looked at).                    *)
(***************************************************************************)
C3_UnexpectedStatus ==
    ResponsesRead # {} /\ FirstResponse.StatusCode # 407 =>
        /\ NumWrites <= 1
        /\ SspiIdx({"Update"}) = {}
        /\ Returned =>
              /\ ret.conn = dialCalls[1].conn
              /\ ret.err = IF FirstBodyClosed THEN UnexpectedStatus ELSE ErrBodyClose

\* Leg 1 was answered by 200: the call failed on it after one request.
C3_Witness ==
    /\ Returned
    /\ ResponsesRead # {}
    /\ FirstResponse.StatusCode = 200
    /\ ret.err = UnexpectedStatus
    /\ NumWrites = 1

(***************************************************************************)
(* C4, as stated: if the first response is a 407 with no Proxy-Authenticate*)
(* header, with more than one value of it, or with a single value shorter  *)
(* than 6 characters or not starting with "NTLM ", the call fails with a   *)
(* missing- or malformed-challenge error, Update is never invoked and no   *)
(* second CONNECT request is written.                                      *)
(***************************************************************************)
\* The first five characters are not N, T, L, M and a space.
LacksNTLMPrefix(value) == \E i \in 1..5 : i > Len(value) \/ value[i] # NTLMPrefix[i]

BadChallenge(response) ==
    \/ "Proxy-Authenticate" \notin DOMAIN response.Header
    \/ Len(response.Header["Proxy-Authenticate"]) > 1
    \/ Len(response.Header["Proxy-Authenticate"][1]) < 6
    \/ LacksNTLMPrefix(response.Header["Proxy-Authenticate"][1])

C4_AsStated ==
    ResponsesRead # {} /\ FirstResponse.StatusCode = 407 /\ BadChallenge(FirstResponse) =>
        /\ NumWrites <= 1
        /\ SspiIdx({"Update"}) = {}
        /\ Returned => ret.err \in ChallengeErrors

(***************************************************************************)
(* C4, amended: under the same condition Update is never invoked and no    *)
(* second CONNECT request is written, and the call fails: with a missing-  *)
(* or malformed-challenge error when closing the body of the response      *)
(* succeeded, and with the error of that Close when it failed.             *)
(***************************************************************************)
C4_BadChallenge ==
    ResponsesRead # {} /\ FirstResponse.StatusCode = 407 /\ BadChallenge(FirstResponse) =>
        /\ NumWrites <= 1
        /\ SspiIdx({"Update"}) = {}
        /\ Returned =>
              /\ ret.conn = dialCalls[1].conn
              /\ IF FirstBodyClosed
                 THEN ret.err \in ChallengeErrors
                 ELSE ret.err = ErrBodyClose

\* Leg 1 was answered by a 407 with two Proxy-Authenticate values.
C4_Witness ==
    /\ Returned
    /\ ResponsesRead # {}
    /\ FirstResponse.StatusCode = 407
    /\ "Proxy-Authenticate" \in DOMAIN FirstResponse.Header
    /\ Len(FirstResponse.Header["Proxy-Authenticate"]) = 2
    /\ ret.err = ErrorsNew("received malformed challenge from the server")
    /\ NumWrites = 1


(***************************************************************************)
(* C5: on every return path after a successful dial the connection         *)
(* returned is the one dial returned, and the handshake only writes to it  *)
(* and reads from it: it never closes it.                                  *)
(***************************************************************************)
C5_ConnectionHandedBack ==
    DialSucceeded =>
        /\ \A i \in 1..Len(connLog) :
              /\ connLog[i].op \in {"write", "read", "closeBody"}
              /\ connLog[i].conn = dialCalls[1].conn
        /\ Returned => ret.conn = dialCalls[1].conn

\* A call that failed after its second request hands the connection back.
C5_Witness ==
    /\ Returned
    /\ DialSucceeded
    /\ ~ret.err.isNil
    /\ NumWrites = 2
    /\ ret.conn = DialedConn

(***************************************************************************)
(* C6 speaks of the requests written and the tokens they bear.             *)
(***************************************************************************)
FirstWrite == connLog[MinOf(ConnIdx("write"))].req

SecondWrite == connLog[MaxOf(ConnIdx("write"))].req

ContextsCreated == {i \in SspiIdx({"NewClientContext"}) : sspiCalls[i].ok}

UpdatesDone == {i \in SspiIdx({"Update"}) : sspiCalls[i].ok}

\* The request carries exactly "NTLM " + base64(token) as Proxy-Authorization.
Bears(request, token) ==
    /\ "Proxy-Authorization" \in DOMAIN request.Header
    /\ request.Header["Proxy-Authorization"] = <<NTLMPrefix \o EncodeToString(token)>>

(***************************************************************************)
(* C6, as stated: exactly two CONNECT requests are written per handshake   *)
(* attempt, the first bearing the Negotiate token and the second the       *)
(* Authenticate token.  It is stated here of the attempts whose first      *)
(* request was written, answered, and the answer's body closed.            *)
(***************************************************************************)
C6_AsStated ==
    Returned /\ ResponsesRead # {} /\ FirstBodyClosed =>
        /\ NumWrites = 2
        /\ \A i \in ContextsCreated : Bears(FirstWrite, sspiCalls[i].token)
        /\ \A i \in UpdatesDone : Bears(SecondWrite, sspiCalls[i].token)

(***************************************************************************)
(* C6, amended: at most two CONNECT requests are written per handshake     *)
(* attempt; the first bears the Negotiate token; a second one is written   *)
(* exactly when Update succeeded, after the first, and bears the           *)
(* Authenticate token; so every successful call has written exactly two.   *)
(***************************************************************************)
C6_AtMostTwoInOrder ==
    /\ NumWrites <= 2
    /\ NumWrites >= 1 =>
          /\ ContextsCreated # {}
          /\ \A i \in ContextsCreated : Bears(FirstWrite, sspiCalls[i].token)
    /\ NumWrites = 2 =>
          /\ UpdatesDone # {}
          /\ \A i \in UpdatesDone : Bears(SecondWrite, sspiCalls[i].token)
    /\ Returned => (NumWrites = 2 <=> UpdatesDone # {})
    /\ Returned /\ ret.err.isNil => NumWrites = 2

\* A successful call: two requests, bearing two different tokens.
C6_Witness ==
    /\ Returned
    /\ ret.err.isNil
    /\ NumWrites = 2
    /\ negotiate # authenticate
    /\ Bears(FirstWrite, negotiate)
    /\ Bears(SecondWrite, authenticate)

(***************************************************************************)
(* C7: AcquireUserCredentials, with the configured domain, username and    *)
(* password, is called if and only if the three are all non-empty;         *)
(* otherwise AcquireCurrentUserCredentials is; and a call that gets past   *)
(* dial invokes exactly one of the two, once.                              *)
(***************************************************************************)
C7_CredentialChoice ==
    /\ Cardinality(SspiIdx(AcquireOps)) <= 1
    /\ DialSucceeded /\ pc # "acquire" => Cardinality(SspiIdx(AcquireOps)) = 1
    /\ \A i \in SspiIdx(AcquireOps) :
          IF p.Domain # "" /\ p.Username # "" /\ p.Password # ""
          THEN /\ sspiCalls[i].op = "AcquireUserCredentials"
               /\ sspiCalls[i].args = <<p.Domain, p.Username, p.Password>>
          ELSE sspiCalls[i].op = "AcquireCurrentUserCredentials"

\* Only the domain is empty, and the current user's credentials were taken.
C7_Witness ==
    /\ p.Domain = ""
    /\ p.Username # ""
    /\ p.Password # ""
    /\ SspiIdx({"AcquireCurrentUserCredentials"}) # {}

\* All three are set, and they were handed to AcquireUserCredentials.
C7_WitnessSupplied ==
    \E i \in SspiIdx({"AcquireUserCredentials"}) : sspiCalls[i].args = <<"x", "x", "x">>

(***************************************************************************)
(* C8: if dial fails, the call returns the connection value and the error  *)
(* dial returned, unchanged, and does nothing else: no provider call, no   *)
(* handle, no write and no read.                                           *)
(***************************************************************************)
C8_DialFailure ==
    dialCalls # <<>> /\ ~dialCalls[1].err.isNil =>
        /\ pc \in {"unwinding", "returned"}
        /\ sspiCalls = <<>>
        /\ connLog = <<>>
        /\ cred = NoHandle
        /\ secctx = NoHandle
        /\ ret = [conn |-> dialCalls[1].conn, err |-> dialCalls[1].err]

\* dial returned a connection together with an error: both came back.
C8_Witness ==
    /\ Returned
    /\ dialCalls = <<[conn |-> DialedConn, err |-> ErrDial]>>
    /\ ret = [conn |-> DialedConn, err |-> ErrDial]

(***************************************************************************)
(* C9: the first CONNECT request written carries, as its only              *)
(* Proxy-Authorization value, "NTLM " + base64 of the token that the       *)
(* context creation of this call returned (whatever the configured headers *)
(* held under that name), and Proxy-Connection: Keep-Alive.                *)
(***************************************************************************)
C9_NegotiateRequest ==
    NumWrites >= 1 =>
        /\ Cardinality(ContextsCreated) = 1
        /\ \A i \in ContextsCreated :
              /\ Bears(FirstWrite, sspiCalls[i].token)
              /\ DecodeString(SubSeq(FirstWrite.Header["Proxy-Authorization"][1], 6,
                                      Len(FirstWrite.Header["Proxy-Authorization"][1])))
                     = [err |-> Nil, out |-> sspiCalls[i].token]
        /\ "Proxy-Connection" \in DOMAIN FirstWrite.Header
        /\ FirstWrite.Header["Proxy-Connection"] = <<KeepAlive>>

\* The configured headers held a Basic authorization and a Proxy-Connection.
C9_Witness ==
    /\ NumWrites >= 1
    /\ p.Headers = ConfiguredRef
    /\ "Proxy-Authorization" \in DOMAIN heap[ConfiguredRef]
    /\ heap[ConfiguredRef]["Proxy-Authorization"] = <<BasicAuth>>
    /\ negotiate = <<255, 77, 155>>
    /\ Bears(FirstWrite, negotiate)

(***************************************************************************)
(* C10: whenever a second CONNECT request is written, Update was invoked   *)
(* (once, on the context of this call) with exactly the base64 decoding of *)
(* the text after "NTLM " in the single Proxy-Authenticate value of the    *)
(* first response, and the request carries "NTLM " + base64 of the token   *)
(* that this Update returned.                                              *)
(***************************************************************************)
C10_AuthenticateRequest ==
    NumWrites = 2 =>
        LET values == FirstResponse.Header["Proxy-Authenticate"]
            text == SubSeq(values[1], 6, Len(values[1]))
        IN  /\ Len(values) = 1
            /\ DecodeString(text).err.isNil
            /\ Cardinality(SspiIdx({"Update"})) = 1
            /\ \A i \in SspiIdx({"Update"}) :
                  /\ sspiCalls[i].ok
                  /\ sspiCalls[i].handle = CtxHandle
                  /\ sspiCalls[i].args = DecodeString(text).out
                  /\ Bears(SecondWrite, sspiCalls[i].token)

\* The challenge was "TR==", which is not what base64 of its bytes gives.
C10_Witness ==
    /\ NumWrites = 2
    /\ FirstResponse.Header["Proxy-Authenticate"] = <<NTLMPrefix \o <<"T", "R", "=", "=">>>>
    /\ \E i \in SspiIdx({"Update"}) :
          /\ sspiCalls[i].args = <<77>>
          /\ EncodeToString(sspiCalls[i].args) # <<"T", "R", "=", "=">>
          /\ sspiCalls[i].token # negotiate
          /\ Bears(SecondWrite, sspiCalls[i].token)


(***************************************************************************)
(* C11: every header of the configured header set other than               *)
(* Proxy-Authorization and Proxy-Connection is in every CONNECT request    *)
(* written, with its configured values, and a second request has the       *)
(* method, the target and the header names of the first and differs from   *)
(* it in no header other than Proxy-Authorization.                         *)
(***************************************************************************)
C11_OtherHeadersKept ==
    /\ \A i \in ConnIdx("write") :
          /\ connLog[i].req.Method = "CONNECT"
          /\ connLog[i].req.Host = addr
          /\ \A k \in (DOMAIN heap[p.Headers]) \ {"Proxy-Authorization", "Proxy-Connection"} :
                /\ k \in DOMAIN connLog[i].req.Header
                /\ connLog[i].req.Header[k] = heap[p.Headers][k]
    /\ NumWrites = 2 =>
          /\ SecondWrite.Method = FirstWrite.Method
          /\ SecondWrite.Host = FirstWrite.Host
          /\ DOMAIN SecondWrite.Header = DOMAIN FirstWrite.Header
          /\ \A k \in (DOMAIN FirstWrite.Header) \ {"Proxy-Authorization"} :
                SecondWrite.Header[k] = FirstWrite.Header[k]

\* Two requests written with a configured header of two values, and the two
\* differ in Proxy-Authorization.
C11_Witness ==
    /\ NumWrites = 2
    /\ "X-Custom" \in DOMAIN heap[p.Headers]
    /\ FirstWrite.Header["X-Custom"] = <<<<"a">>, <<"b">>>>
    /\ SecondWrite.Header["X-Custom"] = <<<<"a">>, <<"b">>>>
    /\ SecondWrite.Header["Proxy-Authorization"] # FirstWrite.Header["Proxy-Authorization"]

(***************************************************************************)
(* The states of the handshake.  A call is Failed or Authenticated from    *)
(* its return statement on; a call that panicked stays in the state it was *)
(* in.                                                                     *)
(***************************************************************************)
Phase ==
    IF exit = "return" THEN (IF ret.err.isNil THEN "Authenticated" ELSE "Failed")
    ELSE IF exit = "panic" THEN "CredentialsAcquired"
    ELSE IF pc \in {"dial", "acquire"} THEN "Dialing"
    ELSE IF pc \in {"newctx", "build", "write1"} THEN "CredentialsAcquired"
    ELSE IF pc \in {"read1", "check1"} THEN "NegotiateSent"
    ELSE IF pc \in {"update", "write2"} THEN "ChallengeReceived"
    ELSE "AuthenticateSent"

PhaseOrder ==
    <<"Dialing", "CredentialsAcquired", "NegotiateSent", "ChallengeReceived",
      "AuthenticateSent", "Authenticated">>

Rank(phase) == CHOOSE i \in 1..Len(PhaseOrder) : PhaseOrder[i] = phase

\* A step keeps the state, moves it to the next one, or fails the call; the
\* two terminal states are never left.
ForwardStep ==
    /\ Phase \in {"Authenticated", "Failed"} => Phase' = Phase
    /\ \/ Phase' = Phase
       \/ Phase' = "Failed"
       \/ Phase # "Failed" /\ Phase' # "Failed" /\ Rank(Phase') = Rank(Phase) + 1

\* The successful steps behind a nil error, each once and in this order.
InOrder ==
    /\ DialSucceeded
    /\ \E a \in SspiIdx(AcquireOps), c \in SspiIdx({"NewClientContext"}),
          u \in SspiIdx({"Update"}) :
          /\ SspiIdx(AcquireOps) = {a} /\ sspiCalls[a].ok
          /\ SspiIdx({"NewClientContext"}) = {c} /\ sspiCalls[c].ok
          /\ SspiIdx({"Update"}) = {u} /\ sspiCalls[u].ok
          /\ \E w1, w2 \in ConnIdx("write"), r1, r2 \in ConnIdx("read") :
                /\ ConnIdx("write") = {w1, w2} /\ connLog[w1].ok /\ connLog[w2].ok
                /\ ConnIdx("read") = {r1, r2} /\ connLog[r1].ok /\ connLog[r2].ok
                /\ 1 < sspiCalls[a].at
                /\ sspiCalls[a].at < sspiCalls[c].at
                /\ sspiCalls[c].at < connLog[w1].at
                /\ connLog[w1].at < connLog[r1].at
                /\ connLog[r1].at < sspiCalls[u].at
                /\ sspiCalls[u].at < connLog[w2].at
                /\ connLog[w2].at < connLog[r2].at
                /\ connLog[r1].resp.StatusCode = 407
                /\ ~BadChallenge(connLog[r1].resp)
                /\ connLog[r2].resp.StatusCode = 200

\* A step that fails the call.
FailingStep == Next /\ exit' = "return" /\ ~ret'.err.isNil

\* The positions where the call waits for a collaborator; each of the five
\* states before the end has one.
WaitingOn ==
    {"dial", "acquire", "newctx", "write1", "read1", "check1", "update", "write2", "read2"}

(***************************************************************************)
(* C12: the handshake moves only forward, one state at a time, through     *)
(* Dialing, CredentialsAcquired, NegotiateSent, ChallengeReceived,         *)
(* AuthenticateSent, Authenticated, or to Failed; an error of nil is       *)
(* returned only behind a successful dial, acquisition, context creation,  *)
(* first write, read of a 407 with one well-formed challenge, Update,      *)
(* second write and read of a 200, in this order; and wherever the call    *)
(* waits on a collaborator in a state before the end, a step to Failed is  *)
(* possible.                                                               *)
(***************************************************************************)
C12_ForwardInOrder ==
    /\ [][ForwardStep]_vars
    /\ [](Phase = "Authenticated" => InOrder)
    /\ [](pc \in WaitingOn => ENABLED FailingStep)

\* A call that went through all the states and returned a nil error.
C12_Witness ==
    /\ Returned
    /\ Phase = "Authenticated"
    /\ InOrder
    /\ Len(connLog) = 6

(***************************************************************************)
(* C13: nothing is retried.  Within a call baseDial, the acquisition of    *)
(* credentials, the creation of the context and Update are each invoked at *)
(* most once (Update exactly once when the call returns a nil error, and   *)
(* at most once on any one context), at most two requests are written and  *)
(* at most two responses are read.                                         *)
(***************************************************************************)
C13_NothingRetried ==
    /\ Len(dialCalls) <= 1
    /\ Cardinality(SspiIdx(AcquireOps)) <= 1
    /\ Cardinality(SspiIdx({"NewClientContext"})) <= 1
    /\ Cardinality(SspiIdx({"Update"})) <= 1
    /\ \A hd \in {CtxHandle, NoHandle} :
          Cardinality({i \in SspiIdx({"Update"}) : sspiCalls[i].handle = hd}) <= 1
    /\ Returned /\ ret.err.isNil => Cardinality(UpdatesDone) = 1
    /\ NumWrites <= 2
    /\ Cardinality(ConnIdx("read")) <= 2

\* A call whose second read failed: every step was made once, the requests
\* and the reads are two each.
C13_Witness ==
    /\ Returned
    /\ ret.err = ErrRead
    /\ Len(dialCalls) = 1
    /\ Cardinality(SspiIdx({"Update"})) = 1
    /\ NumWrites = 2
    /\ Cardinality(ConnIdx("read")) = 2

\* The error a collaborator returns when the given operation fails.
ErrorOf(op) ==
    IF op \in AcquireOps THEN ErrAcquire
    ELSE IF op = "NewClientContext" THEN ErrContext
    ELSE IF op = "Update" THEN ErrUpdate
    ELSE IF op = "write" THEN ErrWrite
    ELSE IF op = "read" THEN ErrRead
    ELSE ErrBodyClose

\* The call has left through a return statement with the dialed connection
\* and the given error.
FailedWith(e) ==
    /\ exit = "return"
    /\ ret = [conn |-> dialCalls[1].conn, err |-> e]

\* Nothing but releases after the given place among the calls.
OnlyReleasesAfter(t) ==
    /\ \A i \in 1..Len(connLog) : connLog[i].at <= t
    /\ \A i \in 1..Len(sspiCalls) :
          sspiCalls[i].at > t => sspiCalls[i].op = "Release"

\* The text of the one well-formed challenge of the first response.
FirstChallengeText ==
    SubSeq(FirstResponse.Header["Proxy-Authenticate"][1], 6,
           Len(FirstResponse.Header["Proxy-Authenticate"][1]))

(***************************************************************************)
(* C14: an error of the acquisition of credentials, of the creation of the *)
(* context, of Update, of a write, of a read, of closing the body of the   *)
(* first response or of decoding the challenge ends the attempt at once:   *)
(* the call returns the dialed connection with that same error, and after  *)
(* the failed step it writes, reads, acquires and updates nothing; only    *)
(* releases follow.                                                        *)
(***************************************************************************)
C14_ErrorEndsAttempt ==
    /\ \A i \in SspiIdx(AcquireOps \cup {"NewClientContext", "Update"}) :
          ~sspiCalls[i].ok =>
              /\ FailedWith(ErrorOf(sspiCalls[i].op))
              /\ OnlyReleasesAfter(sspiCalls[i].at)
    /\ \A j \in ConnIdx("write") \cup ConnIdx("read") :
          ~connLog[j].ok =>
              /\ FailedWith(ErrorOf(connLog[j].op))
              /\ OnlyReleasesAfter(connLog[j].at)
    /\ \A j \in ConnIdx("closeBody") :
          j = MinOf(ConnIdx("closeBody")) /\ ~connLog[j].ok =>
              /\ FailedWith(ErrBodyClose)
              /\ OnlyReleasesAfter(connLog[j].at)
    /\ /\ FirstBodyClosed
       /\ FirstResponse.StatusCode = 407
       /\ ~BadChallenge(FirstResponse)
       /\ ~DecodeString(FirstChallengeText).err.isNil
       => /\ FailedWith(DecodeString(FirstChallengeText).err)
          /\ OnlyReleasesAfter(connLog[MinOf(ConnIdx("closeBody"))].at)

\* Closing the body of a first response that held a good challenge failed:
\* the call is over with that error and has released its two handles.
C14_Witness ==
    /\ Returned
    /\ ResponsesRead # {}
    /\ FirstResponse.StatusCode = 407
    /\ ~BadChallenge(FirstResponse)
    /\ DecodeString(FirstChallengeText).err.isNil
    /\ ~FirstBodyClosed
    /\ ret.err = ErrBodyClose
    /\ Cardinality(SspiIdx({"Release"})) = 2

\* The calls of the scenario: the one that is running and the one that is not.
Calls == {Running, other}

\* The positions of the operations of a kind in the logs of a call.
ConnIdxOf(c, op) == {i \in 1..Len(c.connLog) : c.connLog[i].op = op}

SspiIdxOf(c, ops) == {i \in 1..Len(c.sspiCalls) : c.sspiCalls[i].op \in ops}

\* The call touches nothing but the connection it dialed, the handles the
\* provider handed to it and the header map it cloned.
OwnOnly(c) ==
    /\ \A i \in 1..Len(c.dialCalls) : c.dialCalls[i].conn \in {NilConn, ConnOf(c.self)}
    /\ \A i \in 1..Len(c.connLog) : c.connLog[i].conn = ConnOf(c.self)
    /\ \A i \in 1..Len(c.sspiCalls) :
          /\ c.sspiCalls[i].handle \in {NoHandle, CredOf(c.self), CtxOf(c.self)}
          /\ c.sspiCalls[i].op = "NewClientContext" =>
                c.sspiCalls[i].args = <<CredOf(c.self)>>
    /\ c.h \in {NilRef, CloneOf(c.self)}
    /\ c.connect.Header \in {NilRef, CloneOf(c.self)}

\* The token the call was handed before its n-th write: the negotiate
\* message for the first, the authenticate message for the second.
TokenBefore(c, i) ==
    LET made == {j \in SspiIdxOf(c, {"NewClientContext", "Update"}) :
                    c.sspiCalls[j].ok /\ c.sspiCalls[j].at < c.connLog[i].at}
    IN  c.sspiCalls[CHOOSE j \in made : \A k \in made : k <= j].token

\* What the call wrote and returned is what it writes and returns when it
\* runs alone: requests with the configured headers and its own tokens, and
\* the connection it dialed with the error its own last answer calls for.
AsAlone(c) ==
    /\ \A i \in ConnIdxOf(c, "write") :
          /\ Bears(c.connLog[i].req, TokenBefore(c, i))
          /\ c.connLog[i].req.Header["Proxy-Connection"] = <<KeepAlive>>
          /\ \A k \in (DOMAIN heap[p.Headers]) \ {"Proxy-Authorization", "Proxy-Connection"} :
                /\ k \in DOMAIN c.connLog[i].req.Header
                /\ c.connLog[i].req.Header[k] = heap[p.Headers][k]
    /\ c.pc = "returned" =>
          /\ c.ret.conn = c.dialCalls[1].conn
          /\ c.ret.err.isNil <=>
                /\ Cardinality(ConnIdxOf(c, "read")) = 2
                /\ \A i \in ConnIdxOf(c, "read") :
                      /\ c.connLog[i].ok
                      /\ i > 3 => c.connLog[i].resp.StatusCode = 200

\* A step of the running call leaves every header map but its own clone as
\* it was.
OwnMapOnly ==
    self' = self =>
        \A r \in (DOMAIN heap) \ {CloneOf(self)} : heap'[r] = heap[r]

(***************************************************************************)
(* C15: in every interleaving of two calls of dialNTLM that are given the  *)
(* same Proxy and dial their own connections, each call uses only the      *)
(* handles it acquired, writes and reads only its own connection, and      *)
(* writes and returns what it does when it runs alone; a step of one call  *)
(* changes no header map but the clone of that call.                       *)
(***************************************************************************)
C15_CallsIndependent ==
    /\ [](\A c \in Calls : OwnOnly(c) /\ AsAlone(c))
    /\ [][OwnMapOnly]_vars

\* Both calls are between their second write and their second read, each
\* with the token handed to it in its request.
C15_Witness ==
    /\ scenario = "concurrent"
    /\ pc = "read2"
    /\ other.pc = "read2"
    /\ \A c \in Calls : Cardinality(ConnIdxOf(c, "write")) = 2
    /\ authenticate # other.authenticate
    /\ heap[h] # heap[other.h]

(***************************************************************************)
(* C16: the Credential and the SecurityContext are released only after     *)
(* their last use and before the call returns: no NewClientContext and no  *)
(* Update follows the release of the handle it uses, no request is written *)
(* after a release, the SecurityContext is released before the Credential, *)
(* and when the call is over no handle it acquired is unreleased.          *)
(***************************************************************************)
C16_ReleasedAfterUse ==
    /\ \A r \in SspiIdx({"Release"}) :
          /\ \A u \in SspiIdx({"Update"}) :
                sspiCalls[u].handle = sspiCalls[r].handle => u < r
          /\ \A c \in SspiIdx({"NewClientContext"}) :
                sspiCalls[c].args = <<sspiCalls[r].handle>> => c < r
          /\ \A w \in ConnIdx("write") : connLog[w].at < sspiCalls[r].at
          /\ \A i \in ConnIdx("read") : connLog[i].at < sspiCalls[r].at
    /\ \A rc \in ReleasedAt(CredHandle) :
          AcquiredAt(CtxHandle) # {} =>
              \E rs \in ReleasedAt(CtxHandle) : rs < rc
    /\ Ended =>
          \A hd \in {CredHandle, CtxHandle} :
              AcquiredAt(hd) # {} => ReleasedAt(hd) # {}

\* A call that returned a nil error: Update and the second write came before
\* the release of the context, and that before the release of the credential.
C16_Witness ==
    /\ Returned
    /\ ret.err.isNil
    /\ UpdatesDone # {}
    /\ \E rs \in ReleasedAt(CtxHandle), rc \in ReleasedAt(CredHandle) :
          /\ rs < rc
          /\ \A u \in UpdatesDone : u < rs
          /\ connLog[MaxOf(ConnIdx("write"))].at < sspiCalls[rs].at

\* A step leaves the Proxy and the header map it refers to as they are.
ConfigKept ==
    /\ p' = p
    /\ p.Headers # NilRef => heap'[p.Headers] = heap[p.Headers]

(***************************************************************************)
(* C17: a call leaves the Proxy of the caller as it was: no step changes   *)
(* the domain, the username, the password or the configured header map     *)
(* (its Proxy-Authorization and Proxy-Connection entries included), and    *)
(* the header map the handshake writes to is never the configured one.     *)
(***************************************************************************)
C17_ConfigUnchanged ==
    /\ [][ConfigKept]_vars
    /\ [](p.Headers # NilRef => h # p.Headers /\ connect.Header # p.Headers)

\* A call that returned a nil error: the configured map still holds the
\* Basic authorization and "close", the map of the requests the NTLM token
\* and Keep-Alive.
C17_Witness ==
    /\ Returned
    /\ ret.err.isNil
    /\ p.Headers = ConfiguredRef
    /\ "Proxy-Authorization" \in DOMAIN heap[ConfiguredRef]
    /\ heap[ConfiguredRef]["Proxy-Authorization"] = <<BasicAuth>>
    /\ heap[ConfiguredRef]["Proxy-Connection"] = <<<<"c", "l", "o", "s", "e">>>>
    /\ heap[h]["Proxy-Authorization"] = <<NTLMAuthorization(authenticate)>>
    /\ heap[h]["Proxy-Connection"] = <<KeepAlive>>

(***************************************************************************)
(* C18, as stated: each read of a response uses a buffered reader of its   *)
(* own, and the handshake takes from the connection exactly the bytes of   *)
(* the responses it parses: the second parse starts at the first byte      *)
(* after the first response, and behind a nil error every byte the proxy   *)
(* sent after the 200 response is still to be read from the connection     *)
(* returned, none of them held by a reader that was dropped.               *)
(***************************************************************************)
C18_AsStated ==
    /\ Len(brAhead) = Cardinality(ConnIdx("read"))
    /\ Len(brAhead) = 2 => brAhead[1] = 0
    /\ exit = "return" /\ ret.err.isNil =>
          \A i \in 1..Len(brAhead) : brAhead[i] = 0

(***************************************************************************)
(* C19, as stated: for every Proxy, one with nil headers or with an empty  *)
(* header map included, a call never panics; it ends by returning a        *)
(* connection and an error.                                                *)
(***************************************************************************)
C19_AsStated ==
    /\ exit # "panic"
    /\ pc # "panicked"

(***************************************************************************)
(* C20, as stated: when every collaborator returns, a call reaches one of  *)
(* the two terminal states, Authenticated or Failed, within a bounded      *)
(* number of steps and takes no step after it: a call that cannot take a   *)
(* step has returned, a call that has returned cannot take a step, and a   *)
(* call never makes more than twelve calls to its collaborators (one dial, *)
(* five calls to the provider, six operations on the connection).          *)
(***************************************************************************)
C20_AsStated ==
    /\ Returned \/ ENABLED Next
    /\ Returned => ~ENABLED Next /\ Phase \in {"Authenticated", "Failed"}
    /\ Clock <= 1 + 5 + 6

\* With headers that are not nil a call does reach the end by a return.
ReturnsWithHeaders == p.Headers # NilRef => <>Returned

=============================================================================
